---- MODULE Spec2Model ----
(***************************************************************************)
(* OWLFetch (src/Python-version/main.py): the layout and rendering engine *)
(* of a terminal system-fetch utility.                                     *)
(*                                                                         *)
(* A Python str is modelled as a sequence of one-character strings.  The   *)
(* escape character \x1b is the token ESC.  Non-ASCII glyphs of the source *)
(* (box drawing, shade blocks, the degree sign, icon glyphs) are written   *)
(* with one ASCII stand-in per glyph, so every length is the source's.     *)
(* Python's 0-based indices are kept 1-based here; "not found" (-1) is 0.  *)
(***************************************************************************)
EXTENDS Integers, Sequences, FiniteSets, TLC

VARIABLES
    \* --- the program run (main -> Display.render) ---
    pc,               \* position in main/render
    env,              \* the host as the collaborators see it (files, commands, variables)
    ascii_qr_url,     \* args.ascii_qr: NoneVal, or the payload string
    qr_outcome,       \* what the qrcode library did with the payload
    logo_variant,     \* the logo generator render invoked
    term_cols,        \* render: term_cols
    logo_lines,       \* render: logo_lines
    max_logo_width,   \* render: max_logo_width
    max_text_length,  \* render: max_text_length (after the floor)
    info_lines,       \* render: info_lines
    out,              \* the rows written to standard output, in order
    raised,           \* the exception that left render, or NoException
    trunc_calls,      \* the safe_truncate calls build_info_lines made: <<text, max_len, result>>
    \* --- the text functions applied to arbitrary lines ---
    t_pc, t_text, t_max, t_once, t_twice

vars == <<pc, env, ascii_qr_url, qr_outcome, logo_variant, term_cols, logo_lines, max_logo_width,
          max_text_length, info_lines, out, raised, trunc_calls,
          t_pc, t_text, t_max, t_once, t_twice>>

renderVars == <<pc, env, ascii_qr_url, qr_outcome, logo_variant, term_cols, logo_lines, max_logo_width,
                max_text_length, info_lines, out, raised, trunc_calls>>

textVars == <<t_pc, t_text, t_max, t_once, t_twice>>

-----------------------------------------------------------------------------
(* Bounds of the model *)

\* longest arbitrary line handed to the text functions
MaxLineLen == 5

\* largest max_len handed to safe_truncate on arbitrary lines
MaxTruncLen == 6

\* widest terminal
MaxCols == 100

\* data modules along one side of the QR symbol (21 for version 1; fit=True
\* takes a larger version for a longer payload)
QrDataModules == 21

-----------------------------------------------------------------------------
(* Strings *)

ESC == "ESC"

Digits == {"0", "1", "2", "3", "4", "5", "6", "7", "8", "9"}

Max(a, b) == IF a >= b THEN a ELSE b

Min(a, b) == IF a <= b THEN a ELSE b

RECURSIVE Repeat(_, _)
\* Python's  s * n  (empty for n <= 0)
Repeat(s, n) == IF n <= 0 THEN <<>> ELSE s \o Repeat(s, n - 1)

\* Python's  text[i:]  for a 1-based i
From(text, i) == SubSeq(text, i, Len(text))

RECURSIVE Find(_, _, _)
\* Python's  text.find(ch, i): the first index >= i holding ch, 0 when there is none
Find(text, ch, i) ==
    IF i > Len(text) THEN 0
    ELSE IF text[i] = ch THEN i
    ELSE Find(text, ch, i + 1)

-----------------------------------------------------------------------------
(* Colors, Theme *)

BLACK == <<ESC>> \o <<"[", "0", ";", "3", "0", "m">>

DARK_GRAY == <<ESC>> \o <<"[", "1", ";", "3", "0", "m">>

LIGHT_GRAY == <<ESC>> \o <<"[", "0", ";", "3", "7", "m">>

WHITE == <<ESC>> \o <<"[", "1", ";", "3", "7", "m">>

BLUE == <<ESC>> \o <<"[", "0", ";", "3", "4", "m">>

LIGHT_BLUE == <<ESC>> \o <<"[", "1", ";", "3", "4", "m">>

CYAN == <<ESC>> \o <<"[", "0", ";", "3", "6", "m">>

GREEN == <<ESC>> \o <<"[", "0", ";", "3", "2", "m">>

PURPLE == <<ESC>> \o <<"[", "0", ";", "3", "5", "m">>

YELLOW == <<ESC>> \o <<"[", "1", ";", "3", "3", "m">>

RED == <<ESC>> \o <<"[", "0", ";", "3", "1", "m">>

NC == <<ESC>> \o <<"[", "0", "m">>

PRIMARY == WHITE

SECONDARY == LIGHT_GRAY

ACCENT == LIGHT_BLUE

BORDER == DARK_GRAY

-----------------------------------------------------------------------------
(* Display.get_string_length, Display.safe_truncate *)

RECURSIVE SgrRunEnd(_, _)
\* [0-9;]* from index j, greedy: the first index at or after j holding neither a
\* digit nor ';' (Len + 1 when the run reaches the end)
SgrRunEnd(text, j) ==
    IF j <= Len(text) /\ text[j] \in (Digits \cup {";"})
    THEN SgrRunEnd(text, j + 1)
    ELSE j

\* A match of  \x1b\[[0-9;]*m  starting at index i: the index just past it, or 0.
\* 'm' is outside [0-9;], so only the longest run can be followed by the 'm'.
MatchSgr(text, i) ==
    IF i + 1 <= Len(text) /\ text[i] = ESC /\ text[i + 1] = "["
    THEN LET k == SgrRunEnd(text, i + 2)
         IN  IF k <= Len(text) /\ text[k] = "m" THEN k + 1 ELSE 0
    ELSE 0

\* The matches of the pattern in text, each <<first index, index past it>>.  A
\* match holds one ESC, its first character, so no two matches overlap and the
\* left-to-right scan of re.sub finds every one of them.
SgrSpans(text) ==
    {<<s, MatchSgr(text, s)>> :
        s \in {x \in 1..Len(text) : text[x] = ESC /\ MatchSgr(text, x) # 0}}

Kept(pair) == pair[2]

\* re.sub(r'\x1b\[[0-9;]*m', '', text): the characters outside every match
StripSgr(text) ==
    LET spans == SgrSpans(text)
        outside(i) == \A sp \in spans : i < sp[1] \/ i >= sp[2]
        tagged == SelectSeq([i \in 1..Len(text) |-> <<text[i], outside(i)>>], Kept)
    IN  [j \in 1..Len(tagged) |-> tagged[j][1]]

\* a faulty get_string_length: the raw length, control spans counted
get_string_length_Raw(text) == Len(text)

get_string_length(text) == Len(StripSgr(text))

RECURSIVE TruncLoop(_, _, _, _, _)
\* the while loop of safe_truncate, from loop state (i, visible_len, truncated);
\* the result is the loop state at exit
TruncLoop(text, max_len, i, visible_len, truncated) ==
    IF ~(i <= Len(text) /\ visible_len < max_len - 3)
    THEN [truncated |-> truncated, visible_len |-> visible_len, i |-> i]
    ELSE IF text[i] = ESC
         THEN LET end == Find(text, "m", i)
              IN  IF end # 0
                  THEN TruncLoop(text, max_len, end + 1, visible_len,
                                 truncated \o SubSeq(text, i, end))
                  ELSE TruncLoop(text, max_len, i + 1, visible_len, truncated)
         ELSE TruncLoop(text, max_len, i + 1, visible_len + 1,
                        truncated \o <<text[i]>>)

Ellipsis == <<".", ".", ".">>

safe_truncate(text, max_len) ==
    IF Len(StripSgr(text)) <= max_len
    THEN text
    ELSE TruncLoop(text, max_len, 1, 0, <<>>).truncated \o Ellipsis

\* The characters the scan of safe_truncate takes for visible in the whole of
\* text: its visible_len when the budget never stops it.
ScanVisibleLength(text) == TruncLoop(text, Len(text) + 3, 1, 0, <<>>).visible_len

-----------------------------------------------------------------------------
(* Python str and int operations the collaborators use *)

Whitespace == {" ", "\t", "\n"}

RECURSIVE LStripSet(_, _)
LStripSet(s, chars) ==
    IF s # <<>> /\ Head(s) \in chars THEN LStripSet(Tail(s), chars) ELSE s

RECURSIVE RStripSet(_, _)
RStripSet(s, chars) ==
    IF s # <<>> /\ s[Len(s)] \in chars
    THEN RStripSet(SubSeq(s, 1, Len(s) - 1), chars)
    ELSE s

\* s.strip(chars)
StripSet(s, chars) == RStripSet(LStripSet(s, chars), chars)

\* s.strip()
Strip(s) == StripSet(s, Whitespace)

\* s.startswith(prefix)
StartsWith(s, prefix) ==
    Len(s) >= Len(prefix) /\ SubSeq(s, 1, Len(prefix)) = prefix

RECURSIVE SplitAcc(_, _, _, _)
SplitAcc(s, sep, i, cur) ==
    IF i > Len(s) THEN <<cur>>
    ELSE IF s[i] = sep THEN <<cur>> \o SplitAcc(s, sep, i + 1, <<>>)
    ELSE SplitAcc(s, sep, i + 1, Append(cur, s[i]))

\* s.split(sep) for a one-character sep: empty pieces are kept
Split(s, sep) == SplitAcc(s, sep, 1, <<>>)

RECURSIVE WordsAcc(_, _, _)
WordsAcc(s, i, cur) ==
    LET done == IF cur = <<>> THEN <<>> ELSE <<cur>>
    IN  IF i > Len(s) THEN done
        ELSE IF s[i] \in Whitespace THEN done \o WordsAcc(s, i + 1, <<>>)
        ELSE WordsAcc(s, i + 1, Append(cur, s[i]))

\* s.split(): pieces between runs of whitespace, none empty
Words(s) == WordsAcc(s, 1, <<>>)

RECURSIVE Join(_, _)
\* sep.join(parts)
Join(parts, sep) ==
    IF parts = <<>> THEN <<>>
    ELSE IF Len(parts) = 1 THEN parts[1]
    ELSE parts[1] \o sep \o Join(Tail(parts), sep)

DigitValue(c) ==
    CASE c = "0" -> 0 [] c = "1" -> 1 [] c = "2" -> 2 [] c = "3" -> 3 [] c = "4" -> 4
      [] c = "5" -> 5 [] c = "6" -> 6 [] c = "7" -> 7 [] c = "8" -> 8 [] c = "9" -> 9

DigitChar(d) ==
    CASE d = 0 -> "0" [] d = 1 -> "1" [] d = 2 -> "2" [] d = 3 -> "3" [] d = 4 -> "4"
      [] d = 5 -> "5" [] d = 6 -> "6" [] d = 7 -> "7" [] d = 8 -> "8" [] d = 9 -> "9"

AllDigits(s) == s # <<>> /\ \A i \in 1..Len(s) : s[i] \in Digits

RECURSIVE DigitsValue(_)
DigitsValue(s) ==
    IF s = <<>> THEN 0
    ELSE 10 * DigitsValue(SubSeq(s, 1, Len(s) - 1)) + DigitValue(s[Len(s)])

RECURSIVE NatStr(_)
NatStr(n) == IF n < 10 THEN <<DigitChar(n)>> ELSE NatStr(n \div 10) \o <<DigitChar(n % 10)>>

\* str(n), and {n} in an f-string
Str(n) == IF n < 0 THEN <<"-">> \o NatStr(-n) ELSE NatStr(n)

NoException == "NoException"

\* what a call yields: a value, or the exception it raises
Returns(v) == [exc |-> NoException, val |-> v]

Raises(x) == [exc |-> x, val |-> <<>>]

\* int(s) for the numerals of the model: surrounding whitespace, an optional sign,
\* decimal digits.  Anything else raises ValueError.
ParseInt(s) ==
    LET t == Strip(s)
        signed == t # <<>> /\ Head(t) \in {"+", "-"}
        body == IF signed THEN Tail(t) ELSE t
    IN  IF AllDigits(body)
        THEN Returns(IF signed /\ Head(t) = "-" THEN -DigitsValue(body) ELSE DigitsValue(body))
        ELSE Raises("ValueError")

\* int(float(s)) for the numerals of the model: digits with an optional fraction
\* (12, 12., 12.5, .5), truncated toward zero.  Anything else raises ValueError.
ParseFloatInt(s) ==
    LET t == Strip(s)
        dot == Find(t, ".", 1)
        whole == IF dot = 0 THEN t ELSE SubSeq(t, 1, dot - 1)
        frac == IF dot = 0 THEN <<>> ELSE From(t, dot + 1)
        digitsOrEmpty(x) == \A i \in 1..Len(x) : x[i] \in Digits
    IN  IF digitsOrEmpty(whole) /\ digitsOrEmpty(frac) /\ (whole # <<>> \/ frac # <<>>)
        THEN Returns(DigitsValue(whole))
        ELSE Raises("ValueError")

RECURSIVE LastIndexOf(_, _, _)
LastIndexOf(s, ch, i) ==
    IF i = 0 THEN 0 ELSE IF s[i] = ch THEN i ELSE LastIndexOf(s, ch, i - 1)

\* os.path.basename(p)
Basename(p) == From(p, LastIndexOf(p, "/", Len(p)) + 1)

-----------------------------------------------------------------------------
(* The host: files, shell commands, environment variables *)

NoneVal == <<"None">>

MissingFile == [exists |-> FALSE, readable |-> FALSE, content |-> <<>>]

\* the path exists and read_text raises (permissions, a directory, bad encoding)
UnreadableFile == [exists |-> TRUE, readable |-> FALSE, content |-> <<>>]

File(content) == [exists |-> TRUE, readable |-> TRUE, content |-> content]

\* subprocess.run's outcome: it raised, or it ran to a return code and an output
CmdFailsToStart == [raised |-> TRUE, returncode |-> 0, stdout |-> <<>>]

CmdExit(code, stdout) == [raised |-> FALSE, returncode |-> code, stdout |-> stdout]

OS_RELEASE == "/etc/os-release"
PROC_UPTIME == "/proc/uptime"
PROC_CPUINFO == "/proc/cpuinfo"
PROC_STAT == "/proc/stat"
THERMAL_TEMP == "/sys/class/thermal/thermal_zone0/temp"
PROC_DEVICES == "/proc/devices"
PROC_MEMINFO == "/proc/meminfo"
BAT_CAPACITY == "/sys/class/power_supply/BAT0/capacity"
BAT_STATUS == "/sys/class/power_supply/BAT0/status"
DPKG_STATUS == "/var/lib/dpkg/status"
RPM_DIR == "/var/lib/rpm"
PACMAN_DIR == "/var/lib/pacman/local"
PROC_NET_ROUTE == "/proc/net/route"
PROC_LOADAVG == "/proc/loadavg"

\* a healthy laptop
BaseEnv ==
    [ files |->
        [ p \in {OS_RELEASE, PROC_UPTIME, PROC_CPUINFO, PROC_STAT, THERMAL_TEMP,
                 PROC_DEVICES, PROC_MEMINFO, BAT_CAPACITY, BAT_STATUS, DPKG_STATUS,
                 RPM_DIR, PACMAN_DIR, PROC_NET_ROUTE, PROC_LOADAVG} |->
            CASE p = OS_RELEASE ->
                   File(<<"N", "A", "M", "E", "=", "\"", "U", "b", "u", "n", "t", "u", "\"", "\n", "P", "R", "E", "T", "T", "Y", "_", "N", "A", "M", "E", "=", "\"", "U", "b", "u", "n", "t", "u", " ", "2", "2", ".", "0", "4", ".", "3", " ", "L", "T", "S", "\"", "\n", "I", "D", "=", "u", "b", "u", "n", "t", "u", "\n">>)
              [] p = PROC_UPTIME -> File(<<"9", "3", "7", "8", "4", ".", "5", "2", " ", "1", "8", "1", "2", "3", "4", ".", "1", "0", "\n">>)
              [] p = PROC_CPUINFO ->
                   File(<<"p", "r", "o", "c", "e", "s", "s", "o", "r", "\t", ":", " ", "0", "\n", "m", "o", "d", "e", "l", " ", "n", "a", "m", "e", "\t", ":", " ", "I", "n", "t", "e", "l", "(", "R", ")", " ", "C", "o", "r", "e", "(", "T", "M", ")", " ", "i", "7", "-", "9", "7", "5", "0", "H", " ", "C", "P", "U", " ", "@", " ", "2", ".", "6", "0", "G", "H", "z", "\n", "c", "a", "c", "h", "e", " ", "s", "i", "z", "e", "\t", ":", " ", "1", "2", "2", "8", "8", " ", "K", "B", "\n">>)
              [] p = PROC_STAT -> File(<<"c", "p", "u", " ", " ", "1", "0", "0", " ", "0", " ", "5", "0", " ", "8", "5", "0", " ", "0", " ", "0", " ", "0", "\n", "c", "p", "u", "0", " ", "1", "0", "0", " ", "0", " ", "5", "0", " ", "8", "5", "0", " ", "0", " ", "0", " ", "0", "\n">>)
              [] p = THERMAL_TEMP -> File(<<"4", "5", "0", "0", "0", "\n">>)
              [] p = PROC_DEVICES -> File(<<"C", "h", "a", "r", "a", "c", "t", "e", "r", " ", "d", "e", "v", "i", "c", "e", "s", ":", "\n">>)
              [] p = PROC_MEMINFO ->
                   File(<<"M", "e", "m", "T", "o", "t", "a", "l", ":", " ", " ", " ", " ", " ", " ", " ", "1", "6", "3", "1", "1", "2", "2", "0", " ", "k", "B", "\n", "M", "e", "m", "F", "r", "e", "e", ":", " ", " ", " ", " ", " ", " ", " ", " ", " ", "1", "0", "0", "0", "0", "0", "0", " ", "k", "B", "\n", "M", "e", "m", "A", "v", "a", "i", "l", "a", "b", "l", "e", ":", " ", " ", " ", " ", "8", "1", "2", "3", "4", "5", "6", " ", "k", "B", "\n">>)
              [] p = BAT_CAPACITY -> File(<<"8", "7", "\n">>)
              [] p = BAT_STATUS -> File(<<"D", "i", "s", "c", "h", "a", "r", "g", "i", "n", "g", "\n">>)
              [] p = DPKG_STATUS -> File(<<"P", "a", "c", "k", "a", "g", "e", ":", " ", "b", "a", "s", "h", "\n">>)
              [] p = RPM_DIR -> MissingFile
              [] p = PACMAN_DIR -> MissingFile
              [] p = PROC_NET_ROUTE -> File(<<"I", "f", "a", "c", "e", "\t", "D", "e", "s", "t", "i", "n", "a", "t", "i", "o", "n", "\n">>)
              [] p = PROC_LOADAVG -> File(<<"0", ".", "5", "2", " ", "0", ".", "5", "8", " ", "0", ".", "5", "9", " ", "1", "/", "1", "2", "3", "4", " ", "5", "6", "7", "8", "\n">>) ],
      cmds |->
        [ c \in {"uname", "xrandr", "lspci", "df", "dpkg", "rpm", "pacman", "route", "ip"} |->
            CASE c = "uname" -> CmdExit(0, <<"6", ".", "5", ".", "0", "-", "1", "4", "-", "g", "e", "n", "e", "r", "i", "c", "\n">>)
              [] c = "xrandr" -> CmdExit(0, <<"1", "9", "2", "0", "x", "1", "0", "8", "0", "\n">>)
              [] c = "lspci" -> CmdExit(0, <<"I", "n", "t", "e", "l", " ", "C", "o", "r", "p", "o", "r", "a", "t", "i", "o", "n", " ", "U", "H", "D", " ", "G", "r", "a", "p", "h", "i", "c", "s", " ", "6", "3", "0", " ", "(", "r", "e", "v", " ", "0", "2", ")", "\n">>)
              [] c = "df" -> CmdExit(0, <<"1", "2", "0", "G", " ", "/", " ", "4", "6", "8", "G", " ", "(", "2", "7", "%", ")", "\n">>)
              [] c = "dpkg" -> CmdExit(0, <<"2", "1", "4", "5", "\n">>)
              [] c = "rpm" -> CmdExit(0, <<"0", "\n">>)
              [] c = "pacman" -> CmdExit(0, <<"0", "\n">>)
              [] c = "route" -> CmdExit(0, <<"w", "l", "p", "3", "s", "0", "\n">>)
              [] c = "ip" -> CmdExit(0, <<"1", "9", "2", ".", "1", "6", "8", ".", "1", ".", "2", "3", "\n">>) ],
      environ |->
        [ v \in {"SHELL", "DISPLAY", "XDG_CURRENT_DESKTOP", "DESKTOP_SESSION",
                 "GDMSESSION", "LANG"} |->
            CASE v = "SHELL" -> <<"/", "b", "i", "n", "/", "b", "a", "s", "h">>
              [] v = "DISPLAY" -> <<":", "0">>
              [] v = "XDG_CURRENT_DESKTOP" -> <<"G", "N", "O", "M", "E">>
              [] v = "DESKTOP_SESSION" -> <<"u", "b", "u", "n", "t", "u">>
              [] v = "GDMSESSION" -> <<"u", "b", "u", "n", "t", "u">>
              [] v = "LANG" -> <<"e", "n", "_", "U", "S", ".", "U", "T", "F", "-", "8">> ],
      user |-> [exc |-> "NoException", val |-> <<"o", "w", "l">>],
      hostname |-> <<"n", "e", "s", "t">> ]

\* One departure of the host from BaseEnv.
FileIs(p, f) == [kind |-> "file", key |-> p, file |-> f]

CmdIs(c, r) == [kind |-> "cmd", key |-> c, cmd |-> r]

VarIs(v, x) == [kind |-> "var", key |-> v, value |-> x]

UserIs(r) == [kind |-> "user", key |-> "user", user |-> r]

Departures ==
    << FileIs(OS_RELEASE, MissingFile),
       FileIs(OS_RELEASE, File(<<"N", "A", "M", "E", "=", "\"", "U", "b", "u", "n", "t", "u", "\"", "\n", "I", "D", "=", "u", "b", "u", "n", "t", "u", "\n">>)),
       FileIs(OS_RELEASE, File(<<"P", "R", "E", "T", "T", "Y", "_", "N", "A", "M", "E", "=", "\"", "R", "e", "d", " ", "H", "a", "t", " ", "E", "n", "t", "e", "r", "p", "r", "i", "s", "e", " ", "L", "i", "n", "u", "x", " ", "9", ".", "3", " ", "(", "P", "l", "o", "w", ")", "\"", "\n">>)),
       FileIs(PROC_UPTIME, MissingFile),
       FileIs(PROC_UPTIME, UnreadableFile),
       FileIs(PROC_UPTIME, File(<<"\n">>)),
       FileIs(PROC_UPTIME, File(<<"1", "2", "5", ".", "0", "0", " ", "9", "9", ".", "1", "0", "\n">>)),
       FileIs(PROC_UPTIME, File(<<"7", "3", "8", "4", ".", "0", "0", " ", "9", "9", ".", "1", "0", "\n">>)),
       FileIs(PROC_UPTIME, File(<<"n", "/", "a", "\n">>)),
       FileIs(PROC_CPUINFO, MissingFile),
       FileIs(PROC_CPUINFO, File(<<"p", "r", "o", "c", "e", "s", "s", "o", "r", "\t", ":", " ", "0", "\n">>)),
       FileIs(PROC_CPUINFO, File(<<"m", "o", "d", "e", "l", " ", "n", "a", "m", "e", "\n">>)),
       FileIs(PROC_CPUINFO, File(<<"m", "o", "d", "e", "l", " ", "n", "a", "m", "e", "\t", ":", " ", "C", "P", "U", " ", "@", " ", "2", ".", "6", "0", "G", "H", "z", "\n">>)),
       FileIs(PROC_STAT, MissingFile),
       FileIs(PROC_STAT, File(<<"i", "n", "t", "r", " ", "5", "\n">>)),
       FileIs(PROC_STAT, File(<<"c", "p", "u", " ", " ", "0", " ", "0", " ", "0", " ", "0", "\n">>)),
       FileIs(PROC_STAT, File(<<"c", "p", "u", " ", " ", "1", "0", "0", " ", "0", " ", "5", "0", "\n">>)),
       FileIs(PROC_STAT, File(<<"c", "p", "u", " ", " ", "1", "0", "0", " ", "0", " ", "5", "0", " ", "n", "/", "a", "\n">>)),
       FileIs(THERMAL_TEMP, MissingFile),
       FileIs(THERMAL_TEMP, UnreadableFile),
       FileIs(THERMAL_TEMP, File(<<"0", "\n">>)),
       FileIs(THERMAL_TEMP, File(<<"n", "/", "a", "\n">>)),
       FileIs(PROC_DEVICES, MissingFile),
       FileIs(PROC_MEMINFO, MissingFile),
       FileIs(PROC_MEMINFO, File(<<"M", "e", "m", "T", "o", "t", "a", "l", ":", " ", " ", " ", " ", " ", " ", " ", "1", "6", "3", "1", "1", "2", "2", "0", " ", "k", "B", "\n">>)),
       FileIs(PROC_MEMINFO, File(<<"M", "e", "m", "T", "o", "t", "a", "l", ":", "\n">>)),
       FileIs(PROC_MEMINFO, File(<<"M", "e", "m", "T", "o", "t", "a", "l", ":", " ", "n", "/", "a", " ", "k", "B", "\n">>)),
       FileIs(BAT_CAPACITY, MissingFile),
       FileIs(BAT_CAPACITY, UnreadableFile),
       FileIs(BAT_STATUS, MissingFile),
       FileIs(DPKG_STATUS, MissingFile),
       FileIs(PROC_NET_ROUTE, MissingFile),
       FileIs(PROC_LOADAVG, MissingFile),
       FileIs(PROC_LOADAVG, File(<<>>)),
       CmdIs("uname", CmdFailsToStart),
       CmdIs("uname", CmdExit(1, <<"u", "n", "a", "m", "e", ":", " ", "e", "r", "r", "o", "r", "\n">>)),
       CmdIs("xrandr", CmdExit(0, <<>>)),
       CmdIs("lspci", CmdExit(127, <<>>)),
       CmdIs("df", CmdExit(0, <<>>)),
       CmdIs("dpkg", CmdExit(1, <<"0", "\n">>)),
       CmdIs("route", CmdExit(0, <<>>)),
       CmdIs("ip", CmdExit(0, <<>>)),
       VarIs("SHELL", NoneVal),
       VarIs("DISPLAY", NoneVal),
       VarIs("XDG_CURRENT_DESKTOP", NoneVal),
       VarIs("XDG_CURRENT_DESKTOP", <<>>),
       VarIs("LANG", NoneVal),
       UserIs([exc |-> "KeyError", val |-> <<>>]) >>

Depart(e, d) ==
    CASE d.kind = "file" -> [e EXCEPT !.files[d.key] = d.file]
      [] d.kind = "cmd" -> [e EXCEPT !.cmds[d.key] = d.cmd]
      [] d.kind = "var" -> [e EXCEPT !.environ[d.key] = d.value]
      [] d.kind = "user" -> [e EXCEPT !.user = d.user]

\* the hosts of the model: the healthy one, and each single departure from it
Envs == {BaseEnv} \cup {Depart(BaseEnv, Departures[k]) : k \in 1..Len(Departures)}

-----------------------------------------------------------------------------
(* SystemInfo *)

\* Path(path).exists()
Exists(e, path) == e.files[path].exists

read_file(e, path) ==
    LET f == e.files[path]
    IN  IF f.exists /\ f.readable THEN Strip(f.content) ELSE <<>>

run_cmd(e, cmd) ==
    LET r == e.cmds[cmd]
    IN  IF r.raised THEN <<>>
        ELSE IF r.returncode = 0 THEN Strip(r.stdout) ELSE <<>>

\* os.environ.get(name, default)
EnvironGet(e, name, default) ==
    IF e.environ[name] = NoneVal THEN default ELSE e.environ[name]

RECURSIVE FirstStartingWith(_, _, _)
\* the first index >= i of a line that starts with prefix, 0 when there is none
FirstStartingWith(lines, prefix, i) ==
    IF i > Len(lines) THEN 0
    ELSE IF StartsWith(lines[i], prefix) THEN i
    ELSE FirstStartingWith(lines, prefix, i + 1)

get_os_info(e) ==
    IF ~Exists(e, OS_RELEASE) THEN Returns(<<"U", "n", "k", "n", "o", "w", "n", " ", "L", "i", "n", "u", "x">>)
    ELSE LET lines == Split(read_file(e, OS_RELEASE), "\n")
             k == FirstStartingWith(lines, <<"P", "R", "E", "T", "T", "Y", "_", "N", "A", "M", "E", "=">>, 1)
         IN  IF k = 0 THEN Returns(<<"U", "n", "k", "n", "o", "w", "n", " ", "L", "i", "n", "u", "x">>)
             ELSE Returns(StripSet(Split(lines[k], "=")[2], {"\""}))

get_kernel_info(e) == Returns(run_cmd(e, "uname"))

get_hostname(e) == Returns(e.hostname)

get_uptime(e) ==
    LET uptime_content == read_file(e, PROC_UPTIME)
    IN  IF uptime_content = <<>> THEN Returns(<<"U", "n", "k", "n", "o", "w", "n">>)
        ELSE LET parsed == ParseFloatInt(Words(uptime_content)[1])
                 uptime_sec == parsed.val
                 days == uptime_sec \div 86400
                 hours == (uptime_sec % 86400) \div 3600
                 minutes == (uptime_sec % 3600) \div 60
             IN  IF parsed.exc # NoException THEN Raises(parsed.exc)
                 ELSE IF days > 0
                 THEN Returns(<<"u", "p", " ">> \o Str(days) \o <<" ", "d", "a", "y", "s", ",", " ">> \o Str(hours)
                              \o <<" ", "h", "o", "u", "r", "s", ",", " ">> \o Str(minutes) \o <<" ", "m", "i", "n", "u", "t", "e", "s">>)
                 ELSE IF hours > 0
                 THEN Returns(<<"u", "p", " ">> \o Str(hours) \o <<" ", "h", "o", "u", "r", "s", ",", " ">> \o Str(minutes)
                              \o <<" ", "m", "i", "n", "u", "t", "e", "s">>)
                 ELSE Returns(<<"u", "p", " ">> \o Str(minutes) \o <<" ", "m", "i", "n", "u", "t", "e", "s">>)

get_shell_info(e) == Returns(Basename(EnvironGet(e, "SHELL", <<"U", "n", "k", "n", "o", "w", "n">>)))

get_resolution(e) ==
    IF e.environ["DISPLAY"] = NoneVal THEN Returns(<<"U", "n", "k", "n", "o", "w", "n">>)
    ELSE LET res == run_cmd(e, "xrandr")
         IN  Returns(IF res # <<>> THEN res ELSE <<"U", "n", "k", "n", "o", "w", "n">>)

\* a or b for Python strings and None
OrElse(a, b) == IF a # NoneVal /\ a # <<>> THEN a ELSE b

get_desktop_environment(e) ==
    Returns(OrElse(e.environ["XDG_CURRENT_DESKTOP"],
            OrElse(e.environ["DESKTOP_SESSION"],
            OrElse(e.environ["GDMSESSION"], <<"U", "n", "k", "n", "o", "w", "n">>))))

RECURSIVE CpuNameSub(_, _)
\* re.sub(r'\(R\)|\(TM\)|CPU @ .*', '', s) from index i; s holds no newline
CpuNameSub(s, i) ==
    IF i > Len(s) THEN <<>>
    ELSE IF StartsWith(From(s, i), <<"(", "R", ")">>) THEN CpuNameSub(s, i + 3)
    ELSE IF StartsWith(From(s, i), <<"(", "T", "M", ")">>) THEN CpuNameSub(s, i + 4)
    ELSE IF StartsWith(From(s, i), <<"C", "P", "U", " ", "@", " ">>) THEN <<>>
    ELSE <<s[i]>> \o CpuNameSub(s, i + 1)

RECURSIVE SqueezeSpaces(_, _)
\* re.sub(r'  +', ' ', s) from index i
SqueezeSpaces(s, i) ==
    IF i > Len(s) THEN <<>>
    ELSE IF s[i] = " " /\ i < Len(s) /\ s[i + 1] = " "
    THEN SqueezeSpaces(s, i + 1)
    ELSE <<s[i]>> \o SqueezeSpaces(s, i + 1)

get_cpu_info(e) ==
    IF ~Exists(e, PROC_CPUINFO) THEN Returns(<<"U", "n", "k", "n", "o", "w", "n", " ", "C", "P", "U">>)
    ELSE LET lines == Split(read_file(e, PROC_CPUINFO), "\n")
             k == FirstStartingWith(lines, <<"m", "o", "d", "e", "l", " ", "n", "a", "m", "e">>, 1)
         IN  IF k = 0 THEN Returns(<<"U", "n", "k", "n", "o", "w", "n", " ", "C", "P", "U">>)
             ELSE LET fields == Split(lines[k], ":")
                  IN  IF Len(fields) < 2 THEN Raises("IndexError")
                      ELSE LET cpu_info ==
                                   SqueezeSpaces(CpuNameSub(Strip(fields[2]), 1), 1)
                           IN  Returns(IF cpu_info # <<>> THEN cpu_info
                                       ELSE <<"U", "n", "k", "n", "o", "w", "n", " ", "C", "P", "U">>)

RECURSIVE ParseInts(_, _)
\* list(map(int, words[i:])): the values, or the first exception
ParseInts(words, i) ==
    IF i > Len(words) THEN Returns(<<>>)
    ELSE LET first == ParseInt(words[i])
             rest == ParseInts(words, i + 1)
         IN  IF first.exc # NoException THEN Raises(first.exc)
             ELSE IF rest.exc # NoException THEN Raises(rest.exc)
             ELSE Returns(<<first.val>> \o rest.val)

RECURSIVE Sum(_)
Sum(values) == IF values = <<>> THEN 0 ELSE Head(values) + Sum(Tail(values))

get_cpu_usage(e) ==
    IF ~Exists(e, PROC_STAT) THEN Returns(<<"0">>)
    ELSE LET lines == Split(read_file(e, PROC_STAT), "\n")
             k == FirstStartingWith(lines, <<"c", "p", "u", " ">>, 1)
         IN  IF k = 0 THEN Returns(<<"0">>)
             ELSE LET values == ParseInts(Words(lines[k]), 2)
                  IN  IF values.exc # NoException THEN Raises(values.exc)
                      ELSE IF Len(values.val) < 4 THEN Raises("IndexError")
                      ELSE LET idle == values.val[4]
                               total == Sum(values.val)
                           IN  IF total = 0 THEN Raises("ZeroDivisionError")
                               ELSE Returns(Str(100 - ((idle * 100) \div total)))

get_cpu_temp(e) ==
    IF ~Exists(e, THERMAL_TEMP) THEN Returns(<<"N", "/", "A">>)
    ELSE LET temp_raw == read_file(e, THERMAL_TEMP)
             parsed == ParseInt(temp_raw)
         IN  IF temp_raw = <<>> THEN Returns(<<"N", "/", "A">>)
             ELSE IF parsed.exc # NoException THEN Raises(parsed.exc)
             ELSE IF parsed.val > 0 THEN Returns(Str(parsed.val \div 1000) \o <<"o", "C">>)
             ELSE Returns(<<"N", "/", "A">>)

get_gpu_info(e) ==
    IF ~Exists(e, PROC_DEVICES) THEN Returns(<<"U", "n", "k", "n", "o", "w", "n", " ", "G", "P", "U">>)
    ELSE LET gpu_info == run_cmd(e, "lspci")
         IN  Returns(IF gpu_info # <<>> THEN gpu_info ELSE <<"U", "n", "k", "n", "o", "w", "n", " ", "G", "P", "U">>)

\* int(line.split()[1])
SecondWordInt(line) ==
    IF Len(Words(line)) < 2 THEN Raises("IndexError") ELSE ParseInt(Words(line)[2])

RECURSIVE MemScan(_, _, _, _)
\* the for loop of get_memory_info from line i: <<total_mem, avail_mem>> at its
\* end, or the exception that leaves it
MemScan(lines, i, total_mem, avail_mem) ==
    IF i > Len(lines) THEN Returns(<<total_mem, avail_mem>>)
    ELSE IF StartsWith(lines[i], <<"M", "e", "m", "T", "o", "t", "a", "l", ":">>)
    THEN LET n == SecondWordInt(lines[i])
         IN  IF n.exc # NoException THEN Raises(n.exc)
             ELSE MemScan(lines, i + 1, n.val, avail_mem)
    ELSE IF StartsWith(lines[i], <<"M", "e", "m", "A", "v", "a", "i", "l", "a", "b", "l", "e", ":">>)
    THEN LET n == SecondWordInt(lines[i])
         IN  IF n.exc # NoException THEN Raises(n.exc)
             ELSE MemScan(lines, i + 1, total_mem, n.val)
    ELSE MemScan(lines, i + 1, total_mem, avail_mem)

get_memory_info(e) ==
    IF ~Exists(e, PROC_MEMINFO) THEN Returns(<<"U", "n", "k", "n", "o", "w", "n">>)
    ELSE LET scan == MemScan(Split(read_file(e, PROC_MEMINFO), "\n"), 1, 0, 0)
             total_mem == scan.val[1]
             avail_mem == scan.val[2]
             used_mem == total_mem - avail_mem
             total_gb == (total_mem \div 1024) \div 1024
             used_gb == (used_mem \div 1024) \div 1024
             percentage == (used_mem * 100) \div total_mem
         IN  IF scan.exc # NoException THEN Raises(scan.exc)
             ELSE IF total_mem # 0 /\ avail_mem # 0
             THEN Returns(Str(used_gb) \o <<"G", "B", " ", "/", " ">> \o Str(total_gb) \o <<"G", "B", " ", "(">>
                          \o Str(percentage) \o <<"%", ")">>)
             ELSE Returns(<<"U", "n", "k", "n", "o", "w", "n">>)

get_disk_info(e) ==
    LET disk_info == run_cmd(e, "df")
    IN  Returns(IF disk_info # <<>> THEN disk_info ELSE <<"U", "n", "k", "n", "o", "w", "n">>)

get_battery_info(e) ==
    IF ~Exists(e, BAT_CAPACITY) THEN Returns(NoneVal)
    ELSE LET capacity == read_file(e, BAT_CAPACITY)
             status == read_file(e, BAT_STATUS)
         IN  IF capacity # <<>>
             THEN Returns(capacity \o <<"%", " ", "[">> \o status \o <<"]">>)
             ELSE Returns(NoneVal)

get_locale_info(e) == Returns(EnvironGet(e, "LANG", <<"U", "n", "k", "n", "o", "w", "n">>))

package_managers == <<<<DPKG_STATUS, "dpkg">>, <<RPM_DIR, "rpm">>, <<PACMAN_DIR, "pacman">>>>

RECURSIVE PackagesFrom(_, _)
PackagesFrom(e, i) ==
    IF i > Len(package_managers) THEN <<"0">>
    ELSE IF Exists(e, package_managers[i][1]) /\ run_cmd(e, package_managers[i][2]) # <<>>
    THEN run_cmd(e, package_managers[i][2])
    ELSE PackagesFrom(e, i + 1)

get_packages_info(e) == Returns(PackagesFrom(e, 1))

get_network_info(e) ==
    IF ~Exists(e, PROC_NET_ROUTE) THEN Returns(<<"N", "o", " ", "c", "o", "n", "n", "e", "c", "t", "i", "o", "n">>)
    ELSE LET network == run_cmd(e, "route")
             ip_addr == run_cmd(e, "ip")
         IN  IF network # <<>>
             THEN Returns(network \o <<" ", "(">>
                          \o (IF ip_addr # <<>> THEN ip_addr ELSE <<"U", "n", "k", "n", "o", "w", "n", " ", "I", "P">>) \o <<")">>)
             ELSE Returns(<<"N", "o", " ", "c", "o", "n", "n", "e", "c", "t", "i", "o", "n">>)

get_load_average(e) ==
    IF ~Exists(e, PROC_LOADAVG) THEN Returns(<<"U", "n", "k", "n", "o", "w", "n">>)
    ELSE LET words == Words(read_file(e, PROC_LOADAVG))
         IN  Returns(Join(SubSeq(words, 1, Min(3, Len(words))), <<" ">>))

\* getpass.getuser(): the login name, or the exception of a uid without one
getuser(e) == e.user

-----------------------------------------------------------------------------
(* LogoGenerator *)

get_compact_logo ==
    << <<" ", " ", " ", " ">> \o ACCENT \o <<"#", "#", "#", "#", "#", "#">> \o NC,
       <<" ", " ", " ">> \o ACCENT \o <<"#", "#", "#", "#", "#", "#", "#", "#">> \o NC,
       <<" ", " ">> \o ACCENT \o <<"#", "#", "@", "@", "#", "#", "@", "@", "#", "#">> \o NC,
       <<" ", " ">> \o ACCENT \o <<"#", "#", "#", "#", "#", "#", "#", "#", "#", "#">> \o NC,
       <<" ", " ", " ">> \o ACCENT \o <<"#", "#", "#", "#", "#", "#", "#", "#">> \o NC,
       <<" ", " ", " ", " ">> \o ACCENT \o <<"#", "#", "#", "#", "#", "#">> \o NC >>

get_full_logo ==
    << <<" ", " ", " ", " ", " ", " ", " ", " ">> \o ACCENT \o <<":", " ", ":", ":", ":", ":", " ", " ", " ", " ", " ", " ", " ", " ", " ", " ", " ", " ", " ", " ", " ", " ", " ", " ", " ", " ", " ", " ", " ", " ", " ", " ", " ", " ", ":", ":", ":", ":", ":", ":">> \o NC,
       <<" ", " ", " ", " ", " ", " ", " ", " ">> \o ACCENT \o <<":", ":", ":", ":", ":", ":", " ", " ", " ", " ", " ", " ", " ", " ", " ", " ", " ", " ", " ", " ", " ", " ", " ", " ", " ", " ", " ", " ", " ", " ", " ", " ", " ", " ", ":", ":", ":", ":", ":", ":">> \o NC,
       <<" ", " ", " ", " ", " ", " ", " ", " ">> \o ACCENT \o <<":", ":", ":", "#", "#", ":", ":", ":", ":", " ", " ", " ", ":", ":", ":", ":", ":", ":", ":", ":", ":", ":", ":", ":", ":", ":", ":", ":", ":", " ", " ", ":", ":", ":", ":", "%", "%", ":", ":">> \o NC,
       <<" ", " ", " ", " ", " ", " ", " ", " ", " ">> \o ACCENT \o <<":", ":", "#", "#", "#", "#", "#", "#", ":", ":", ":", ":", ":", "%", "%", "%", "%", "%", "%", "%", "%", "%", "%", "%", "%", ":", ":", ":", ":", ":", "%", "%", "%", "%", "%", "%", ":", ":">> \o NC,
       <<" ", " ", " ", " ", " ", " ", " ", " ", " ", " ", " ">> \o ACCENT \o <<":", "#", "#", "#", "#", "#", "#", "#", "#", "#", ":", ":", ":", "%", "%", "%", "%", "%", "%", "%", "%", ":", ":", ":", "%", "%", "%", "%", "%", "%", "%", "%", "%", "%", ":">> \o NC,
       <<" ", " ", " ", " ", " ", " ", " ", " ", " ", " ", " ">> \o ACCENT \o <<":", ":", "#", "#", "#", "#", "#", "#", "#", "#", "#", "#", "%", ":", ":", "%", "%", "%", "%", ":", ":", "%", "%", "%", "%", "%", "%", "%", "%", "%", "%", "%", ":", ":">> \o NC,
       <<" ", " ", " ", " ", " ", " ", " ", " ">> \o ACCENT \o <<":", ":", ":", "%", "#", "#", ":", ":", ":", ":", ":", ":", ":", ":", ":", "#", "#", ":", ":", "%", "%", ":", ":", "%", "%", ":", ":", ":", ":", ":", ":", ":", ":", ":", "%", "%", ":", ":", ":", ":">> \o NC,
       <<" ", " ", " ", " ", " ", " ", " ", " ">> \o ACCENT \o <<":", ":", "#", "#", "#", ":", " ", " ", " ", ":", "@", "@", ":", ":", ":", ":", "#", "#", ":", ":", ":", "%", "%", "%", ":", ":", "%", ":", "@", "@", ":", ":", ":", ":", ":", "%", "%", "%", ":", ":">> \o NC,
       <<" ", " ", " ", " ", " ", " ", " ", " ">> \o ACCENT \o <<":", ":", "#", "#", ":", ":", " ", ":", ":", "@", "@", ":", ":", ":", "@", ":", ":", "#", "#", ":", ":", "%", "%", ":", ":", "%", ":", ":", ":", "@", "@", ":", " ", " ", ":", ":", "%", "%", ":">> \o NC,
       <<" ", " ", " ", " ", " ", " ", " ", " ">> \o ACCENT \o <<":", ":", "#", "#", ":", " ", " ", ":", ":", "@", "@", "@", "#", "@", "#", ":", ":", "#", "#", ":", ":", "%", "%", ":", ":", "@", "@", "#", "@", "@", "@", ":", ":", " ", ":", ":", "%", "%", ":", ":">> \o NC,
       <<" ", " ", " ", " ", " ", " ", " ", " ">> \o ACCENT \o <<":", ":", "#", "#", ":", ":", " ", " ", " ", ":", ":", "@", "#", ":", ":", ":", ":", "#", "#", ":", ":", "%", "%", ":", ":", ":", ":", "#", "@", ":", ":", " ", " ", " ", ":", ":", "%", "%", ":", ":">> \o NC,
       <<" ", " ", " ", " ", " ", " ", " ", " ", " ">> \o ACCENT \o <<":", ":", "#", "#", ":", ":", ":", ":", " ", " ", ":", ":", ":", ":", "%", "#", "#", ":", ":", ":", ":", "%", "%", ":", ":", ":", ":", ":", ":", " ", " ", ":", ":", ":", ":", "%", "%", ":", ":", ":">> \o NC,
       <<" ", " ", " ", " ", " ", " ", " ", " ">> \o ACCENT \o <<":", ":", ":", ":", "#", "#", "#", "#", ":", ":", ":", ":", ":", "#", "#", "#", "%", ":", ":", "%", "%", ":", ":", "%", "%", "%", "%", ":", ":", ":", ":", ":", "%", "%", "%", "%", ":", ":", ":", ":">> \o NC,
       <<" ", " ", " ", " ", " ", " ", " ", " ", " ", " ", " ">> \o ACCENT \o <<":", ":", ":", ":", "#", "#", "#", "#", "#", "#", "%", ":", ":", ":", ":", ":", "%", "%", ":", ":", ":", ":", ":", "%", "%", "%", "%", "%", "%", "%", ":", ":", ":", ":">> \o NC,
       <<" ", " ", " ", " ", " ", " ", " ", " ", " ", " ", " ">> \o ACCENT \o <<":", ":", ":", "%", "%", ":", ":", ":", ":", ":", "%", "%", "%", "%", "%", ":", ":", ":", ":", "%", "%", "%", "%", "%", ":", ":", ":", ":", ":", "%", "%", ":", ":", ":">> \o NC,
       <<" ", " ", " ", " ", " ", " ", " ", " ", " ", " ", " ">> \o ACCENT \o <<":", ":", ":", ":", ":", "%", "%", "%", "%", "%", "%", "%", "%", "%", "%", "%", "%", "%", "%", "%", "%", "%", "%", "%", "%", "%", "%", "%", "%", ":", ":", ":", ":", ":">> \o NC,
       <<" ", " ", " ", " ", " ", " ", " ", " ", " ", " ", " ", " ", " ", " ">> \o ACCENT \o <<":", ":", ":", ":", "%", "%", "%", "%", "%", "%", "%", "%", "%", "%", "%", "%", "%", "%", "%", "%", "%", "%", "%", "%", ":", ":", ":", ":">> \o NC,
       <<" ", " ", " ", " ", " ", " ", " ", " ", " ", " ", " ", " ", " ", " ", " ", " ", " ">> \o ACCENT \o <<":", ":", "%", "%", "%", "%", "%", "%", "%", "%", "%", "%", "%", "%", "%", "%", "%", "%", "%", ":", ":", ":">> \o NC,
       <<" ", " ", " ", " ", " ", " ", " ", " ", " ", " ", " ", " ", " ", " ", " ", " ", " ">> \o ACCENT \o <<":", ":", ":", ":", "%", "%", "%", "%", "%", "%", "%", "%", "%", "%", "%", "%", "%", "%", ":", ":", ":", ":">> \o NC,
       <<" ", " ", " ", " ", " ", " ", " ", " ", " ", " ", " ", " ", " ", " ", " ", " ", " ", " ", " ">> \o ACCENT \o <<":", ":", ":", ":", "%", "%", "%", "%", "%", "%", "%", "%", "%", "%", ":", ":", ":", ":">> \o NC,
       <<" ", " ", " ", " ", " ", " ", " ", " ", " ", " ", " ", " ", " ", " ", " ", " ", " ", " ", " ", " ", " ", " ">> \o ACCENT \o <<":", ":", ":", "%", "%", "%", "%", "%", "%", ":", ":", ":">> \o NC,
       <<" ", " ", " ", " ", " ", " ", " ", " ", " ", " ", " ", " ", " ", " ", " ", " ", " ", " ", " ", " ", " ", " ">> \o ACCENT \o <<":", ":", ":", ":", ":", "%", "%", ":", ":", ":", ":", ":">> \o NC,
       <<" ", " ", " ", " ", " ", " ", " ", " ", " ", " ", " ", " ", " ", " ", " ", " ", " ", " ", " ", " ", " ", " ", " ", " ", " ">> \o ACCENT \o <<":", ":", ":", ":", ":", ":">> \o NC >>

\* border=2 of qrcode.QRCode(...): the quiet zone around the data modules
QrBorder == 2

QrSide == QrDataModules + 2 * QrBorder

\* qr.get_matrix(): a square of booleans, light in the quiet zone; pattern k
\* has every k-th data module of a row dark
QrMatrix(k) ==
    [r \in 1..QrSide |->
        [c \in 1..QrSide |->
            /\ r > QrBorder /\ r <= QrSide - QrBorder
            /\ c > QrBorder /\ c <= QrSide - QrBorder
            /\ (r + c) % k = 0]]

\* What qrcode does with a payload inside the try block: it builds a matrix, or
\* an import fails, or another exception is raised (DataOverflowError for a
\* payload beyond version 40, a TypeError, ...).
QrOutcomes ==
    {[kind |-> "matrix", matrix |-> QrMatrix(k), msg |-> <<>>] : k \in {3, 4}}
    \cup {[kind |-> "ImportError", matrix |-> <<>>, msg |-> <<"N", "o", " ", "m", "o", "d", "u", "l", "e", " ", "n", "a", "m", "e", "d", " ", "'", "P", "I", "L", "'">>]}
    \cup {[kind |-> "Exception", matrix |-> <<>>, msg |-> <<"I", "n", "v", "a", "l", "i", "d", " ", "v", "e", "r", "s", "i", "o", "n">>]}

RECURSIVE QrLine(_, _)
\* the inner loop of generate_ascii_qr over the cells of row from index c
QrLine(row, c) ==
    IF c > Len(row) THEN <<>>
    ELSE (IF row[c] THEN ACCENT \o <<"@", "@">> \o NC ELSE <<" ", " ">>) \o QrLine(row, c + 1)

\* a faulty generate_ascii_qr: the remediation hint follows every error line
generate_ascii_qr_AlwaysHint(url, outcome) ==
    CASE outcome.kind = "matrix" ->
           [r \in 1..Len(outcome.matrix) |-> QrLine(outcome.matrix[r], 1)]
      [] outcome.kind = "ImportError" ->
           << RED \o <<"E", "r", "r", "o", "r", ":", " ", "q", "r", "c", "o", "d", "e", " ", "l", "i", "b", "r", "a", "r", "y", " ", "n", "o", "t", " ", "i", "n", "s", "t", "a", "l", "l", "e", "d">> \o NC,
              SECONDARY \o <<"I", "n", "s", "t", "a", "l", "l", " ", "w", "i", "t", "h", ":", " ", "p", "i", "p", " ", "i", "n", "s", "t", "a", "l", "l", " ", "q", "r", "c", "o", "d", "e", "[", "p", "i", "l", "]">> \o NC >>
      [] outcome.kind = "Exception" ->
           << RED \o <<"E", "r", "r", "o", "r", " ", "g", "e", "n", "e", "r", "a", "t", "i", "n", "g", " ", "Q", "R", " ", "c", "o", "d", "e", ":", " ">> \o outcome.msg \o NC,
              SECONDARY \o <<"I", "n", "s", "t", "a", "l", "l", " ", "w", "i", "t", "h", ":", " ", "p", "i", "p", " ", "i", "n", "s", "t", "a", "l", "l", " ", "q", "r", "c", "o", "d", "e", "[", "p", "i", "l", "]">> \o NC >>

generate_ascii_qr(url, outcome) ==
    CASE outcome.kind = "matrix" ->
           [r \in 1..Len(outcome.matrix) |-> QrLine(outcome.matrix[r], 1)]
      [] outcome.kind = "ImportError" ->
           << RED \o <<"E", "r", "r", "o", "r", ":", " ", "q", "r", "c", "o", "d", "e", " ", "l", "i", "b", "r", "a", "r", "y", " ", "n", "o", "t", " ", "i", "n", "s", "t", "a", "l", "l", "e", "d">> \o NC,
              SECONDARY \o <<"I", "n", "s", "t", "a", "l", "l", " ", "w", "i", "t", "h", ":", " ", "p", "i", "p", " ", "i", "n", "s", "t", "a", "l", "l", " ", "q", "r", "c", "o", "d", "e", "[", "p", "i", "l", "]">> \o NC >>
      [] outcome.kind = "Exception" ->
           << RED \o <<"E", "r", "r", "o", "r", " ", "g", "e", "n", "e", "r", "a", "t", "i", "n", "g", " ", "Q", "R", " ", "c", "o", "d", "e", ":", " ">> \o outcome.msg \o NC >>

-----------------------------------------------------------------------------
(* Display *)

\* shutil's fallback (80, 24): the columns when the size is unavailable
FallbackColumns == 80

\* what asking the terminal for its size yields
TerminalProbes ==
    {[available |-> FALSE, columns |-> 0]}
    \cup {[available |-> TRUE, columns |-> c] : c \in {1, 50, 59, 60, 79, 80, MaxCols}}

get_terminal_size(probe) == IF probe.available THEN probe.columns ELSE FallbackColumns

\* the calls build_info_lines makes, in the order it makes them
Gather(e) ==
    << getuser(e), get_hostname(e), get_os_info(e), get_kernel_info(e), get_uptime(e),
       get_packages_info(e), get_shell_info(e), get_cpu_info(e), get_gpu_info(e),
       get_memory_info(e), get_disk_info(e), get_cpu_usage(e), get_cpu_temp(e),
       get_load_average(e), get_desktop_environment(e), get_resolution(e),
       get_locale_info(e), get_network_info(e), get_battery_info(e) >>

RECURSIVE FirstRaised(_, _)
\* the exception of the first call from index i that raises, NoException when none does
FirstRaised(results, i) ==
    IF i > Len(results) THEN NoException
    ELSE IF results[i].exc # NoException THEN results[i].exc
    ELSE FirstRaised(results, i + 1)

\* the values those calls returned, by name
Values(g) ==
        [ username |-> g[1].val, hostname |-> g[2].val, get_os_info |-> g[3].val,
          get_kernel_info |-> g[4].val, get_uptime |-> g[5].val,
          get_packages_info |-> g[6].val, get_shell_info |-> g[7].val,
          get_cpu_info |-> g[8].val, get_gpu_info |-> g[9].val,
          get_memory_info |-> g[10].val, get_disk_info |-> g[11].val,
          get_cpu_usage |-> g[12].val, get_cpu_temp |-> g[13].val,
          get_load_average |-> g[14].val, get_desktop_environment |-> g[15].val,
          get_resolution |-> g[16].val, get_locale_info |-> g[17].val,
          get_network_info |-> g[18].val, battery |-> g[19].val ]

\* the info_lines of build_info_lines, from the values q its calls returned
InfoLines(q, text_width) ==
        << PRIMARY \o q.username \o SECONDARY \o <<"@">> \o ACCENT \o q.hostname \o NC,
           BORDER \o Repeat(<<"-">>, Min(30, text_width)) \o NC,
           ACCENT \o <<"*", " ">> \o PRIMARY \o <<"S", "y", "s", "t", "e", "m">> \o NC,
           ACCENT \o <<"+", "-", " ">> \o PRIMARY \o <<"O", "S">> \o NC \o <<" ", " ", " ", " ", " ", " ", " ", " ", " ">>
                 \o safe_truncate(SECONDARY \o q.get_os_info \o NC, text_width - 15),
           ACCENT \o <<"+", "-", " ">> \o PRIMARY \o <<"K", "e", "r", "n", "e", "l">> \o NC \o <<" ", " ", " ", " ", " ">>
                 \o safe_truncate(SECONDARY \o q.get_kernel_info \o NC, text_width - 15),
           ACCENT \o <<"+", "-", " ">> \o PRIMARY \o <<"U", "p", "t", "i", "m", "e">> \o NC \o <<" ", " ", " ", " ", " ">>
                 \o safe_truncate(SECONDARY \o q.get_uptime \o NC, text_width - 15),
           ACCENT \o <<"+", "-", " ">> \o PRIMARY \o <<"P", "a", "c", "k", "a", "g", "e", "s">> \o NC \o <<" ", " ", " ">>
                 \o SECONDARY \o q.get_packages_info \o NC,
           ACCENT \o <<"L", "-", " ">> \o PRIMARY \o <<"S", "h", "e", "l", "l">> \o NC \o <<" ", " ", " ", " ", " ", " ">>
                 \o SECONDARY \o q.get_shell_info \o NC,
           <<>>,
           ACCENT \o <<"*", " ">> \o PRIMARY \o <<"H", "a", "r", "d", "w", "a", "r", "e">> \o NC,
           ACCENT \o <<"+", "-", " ">> \o PRIMARY \o <<"C", "P", "U">> \o NC \o <<" ", " ", " ", " ", " ", " ", " ", " ">>
                 \o safe_truncate(SECONDARY \o q.get_cpu_info \o NC, text_width - 15),
           ACCENT \o <<"+", "-", " ">> \o PRIMARY \o <<"G", "P", "U">> \o NC \o <<" ", " ", " ", " ", " ", " ", " ", " ">>
                 \o safe_truncate(SECONDARY \o q.get_gpu_info \o NC, text_width - 15),
           ACCENT \o <<"+", "-", " ">> \o PRIMARY \o <<"M", "e", "m", "o", "r", "y">> \o NC \o <<" ", " ", " ", " ", " ">>
                 \o SECONDARY \o q.get_memory_info \o NC,
           ACCENT \o <<"L", "-", " ">> \o PRIMARY \o <<"D", "i", "s", "k">> \o NC \o <<" ", " ", " ", " ", " ", " ", " ">>
                 \o SECONDARY \o q.get_disk_info \o NC,
           <<>>,
           ACCENT \o <<"*", " ">> \o PRIMARY \o <<"P", "e", "r", "f", "o", "r", "m", "a", "n", "c", "e">> \o NC,
           ACCENT \o <<"+", "-", " ">> \o PRIMARY \o <<"C", "P", "U", " ", "U", "s", "a", "g", "e">> \o NC \o <<" ", " ">>
                 \o SECONDARY \o q.get_cpu_usage \o <<"%">> \o NC,
           ACCENT \o <<"+", "-", " ">> \o PRIMARY \o <<"C", "P", "U", " ", "T", "e", "m", "p">> \o NC \o <<" ", " ", " ">>
                 \o SECONDARY \o q.get_cpu_temp \o NC,
           ACCENT \o <<"L", "-", " ">> \o PRIMARY \o <<"L", "o", "a", "d", " ", "A", "v", "g">> \o NC \o <<" ", " ", " ">>
                 \o SECONDARY \o q.get_load_average \o NC,
           <<>>,
           ACCENT \o <<"*", " ">> \o PRIMARY \o <<"E", "n", "v", "i", "r", "o", "n", "m", "e", "n", "t">> \o NC,
           ACCENT \o <<"+", "-", " ">> \o PRIMARY \o <<"D", "E", "/", "W", "M">> \o NC \o <<" ", " ", " ", " ", " ", " ">>
                 \o safe_truncate(SECONDARY \o q.get_desktop_environment \o NC, text_width - 15),
           ACCENT \o <<"+", "-", " ">> \o PRIMARY \o <<"R", "e", "s", "o", "l", "u", "t", "i", "o", "n">> \o NC \o <<" ">>
                 \o SECONDARY \o q.get_resolution \o NC,
           ACCENT \o <<"+", "-", " ">> \o PRIMARY \o <<"L", "o", "c", "a", "l", "e">> \o NC \o <<" ", " ", " ", " ", " ">>
                 \o SECONDARY \o q.get_locale_info \o NC,
           ACCENT \o <<"L", "-", " ">> \o PRIMARY \o <<"N", "e", "t", "w", "o", "r", "k">> \o NC \o <<" ", " ", " ", " ">>
                 \o safe_truncate(SECONDARY \o q.get_network_info \o NC, text_width - 15) >>
        \o (IF q.battery # NoneVal /\ q.battery # <<>>
            THEN << <<>>,
                    ACCENT \o <<"*", " ">> \o PRIMARY \o <<"B", "a", "t", "t", "e", "r", "y">> \o NC \o <<" ", " ", " ", " ">>
                        \o SECONDARY \o q.battery \o NC >>
            ELSE <<>>)
        \o (IF text_width > 40
            THEN << <<>>,
                    SECONDARY \o <<"C", "o", "l", "o", "r", "s", ":", " ">> \o BLACK \o <<"@", "@", "@">> \o RED \o <<"@", "@", "@">>
                        \o GREEN \o <<"@", "@", "@">> \o YELLOW \o <<"@", "@", "@">> \o BLUE \o <<"@", "@", "@">>
                        \o PURPLE \o <<"@", "@", "@">> \o CYAN \o <<"@", "@", "@">> \o WHITE \o <<"@", "@", "@">> \o NC >>
            ELSE <<>>)

\* build_info_lines once its calls have yielded g: the first exception among
\* them leaves it, otherwise it returns info_lines
BuildFrom(g, text_width) ==
    IF FirstRaised(g, 1) # NoException
    THEN Raises(FirstRaised(g, 1))
    ELSE Returns(InfoLines(Values(g), text_width))

build_info_lines(e, text_width) == BuildFrom(Gather(e), text_width)

\* the safe_truncate calls of build_info_lines: <<text, max_len, result>> each
TruncCalls(q, text_width) ==
    LET call(v) == << SECONDARY \o v \o NC, text_width - 15,
                      safe_truncate(SECONDARY \o v \o NC, text_width - 15) >>
    IN  << call(q.get_os_info), call(q.get_kernel_info), call(q.get_uptime),
           call(q.get_cpu_info), call(q.get_gpu_info), call(q.get_desktop_environment),
           call(q.get_network_info) >>

\* if ascii_qr_url:
Truthy(s) == s # NoneVal /\ s # <<>>

\* the art logo render picks when it makes no QR code
ArtVariant(cols) == IF cols < 80 THEN "compact" ELSE "full"

ArtLogo(cols) == IF ArtVariant(cols) = "compact" THEN get_compact_logo ELSE get_full_logo

RECURSIVE MaxWidthFrom(_, _)
MaxWidthFrom(lines, i) ==
    IF i > Len(lines) THEN 0
    ELSE Max(get_string_length(lines[i]), MaxWidthFrom(lines, i + 1))

\* max(self.get_string_length(line) for line in logo_lines) if logo_lines else 0
MaxLogoWidth(lines) == IF lines # <<>> THEN MaxWidthFrom(lines, 1) ELSE 0

padding == 4

\* a faulty TextLength: the floor is left out
TextLength_NoFloor(cols, logo_width) == cols - logo_width - padding

\* max_text_length as handed to build_info_lines
TextLength(cols, logo_width) ==
    LET candidate == cols - logo_width - padding
    IN  IF candidate < 30 THEN 30 ELSE candidate

\* a faulty IsNarrow: the boundary column is narrow too
IsNarrow_Inclusive(cols) == cols <= 60

\* term_cols < 60
IsNarrow(cols) == cols < 60

\* the rows of the narrow branch
NarrowFrame(info) == << <<>> >> \o info \o << <<>> >>

\* a faulty SpacesNeeded: a row past the logo gets the padding alone
SpacesNeeded_PaddingOnly(logo, i, logo_width) ==
    IF i <= Len(logo)
    THEN logo_width - get_string_length(logo[i]) + padding
    ELSE padding

\* the spaces printed after the logo cell of row i
SpacesNeeded(logo, i, logo_width) ==
    IF i <= Len(logo)
    THEN logo_width - get_string_length(logo[i]) + padding
    ELSE logo_width + padding

\* one pass of the for loop: the row printed for index i (1-based)
ComposedRow(logo, info, logo_width, i) ==
    (IF i <= Len(logo) THEN logo[i] ELSE <<>>)
    \o Repeat(<<" ">>, SpacesNeeded(logo, i, logo_width))
    \o (IF i <= Len(info) THEN info[i] ELSE <<>>)

\* the rows of the side-by-side branch
SideBySideFrame(logo, info, logo_width) ==
    << <<>> >>
    \o [i \in 1..Max(Len(logo), Len(info)) |-> ComposedRow(logo, info, logo_width, i)]
    \o << <<>> >>

-----------------------------------------------------------------------------
(* main -> Display.render, step by step *)

\* args.ascii_qr: --ascii-qr absent, given an empty payload, given a payload
CliArgs == {NoneVal, <<>>, <<"h", "t", "t", "p", "s", ":", "/", "/", "o", "w", "l", ".", "e", "x", "a", "m", "p", "l", "e">>}

Init ==
    /\ pc = "main"
    /\ env \in Envs
    /\ ascii_qr_url = NoneVal
    /\ qr_outcome = "none"
    /\ logo_variant = "none"
    /\ term_cols = 0
    /\ logo_lines = <<>>
    /\ max_logo_width = 0
    /\ max_text_length = 0
    /\ info_lines = <<>>
    /\ out = <<>>
    /\ raised = NoException
    /\ trunc_calls = <<>>
    /\ t_pc = "off"
    /\ t_text = <<>>
    /\ t_max = 0
    /\ t_once = NoneVal
    /\ t_twice = NoneVal

\* main: parse the command line, call render(args.ascii_qr)
Main ==
    /\ pc = "main"
    /\ \E a \in CliArgs : ascii_qr_url' = a
    /\ pc' = "size"
    /\ UNCHANGED <<env, qr_outcome, logo_variant, term_cols, logo_lines, max_logo_width,
                   max_text_length, info_lines, out, raised, trunc_calls>>
    /\ UNCHANGED textVars

\* render: clear the screen, read the terminal size
TerminalSize ==
    /\ pc = "size"
    /\ \E probe \in TerminalProbes : term_cols' = get_terminal_size(probe)
    /\ pc' = "logo"
    /\ UNCHANGED <<env, ascii_qr_url, qr_outcome, logo_variant, logo_lines, max_logo_width,
                   max_text_length, info_lines, out, raised, trunc_calls>>
    /\ UNCHANGED textVars

\* render: the QR branch of the logo choice
LogoQr ==
    /\ pc = "logo"
    /\ Truthy(ascii_qr_url)
    /\ \E o \in QrOutcomes :
          /\ logo_lines' = generate_ascii_qr(ascii_qr_url, o)
          /\ qr_outcome' = o.kind
    /\ logo_variant' = "qrcode"
    /\ pc' = "measure"
    /\ UNCHANGED <<env, ascii_qr_url, term_cols, max_logo_width, max_text_length,
                   info_lines, out, raised, trunc_calls>>
    /\ UNCHANGED textVars

\* render: the art branch of the logo choice
LogoArt ==
    /\ pc = "logo"
    /\ ~Truthy(ascii_qr_url)
    /\ logo_lines' = ArtLogo(term_cols)
    /\ logo_variant' = ArtVariant(term_cols)
    /\ pc' = "measure"
    /\ UNCHANGED <<env, ascii_qr_url, qr_outcome, term_cols, max_logo_width,
                   max_text_length, info_lines, out, raised, trunc_calls>>
    /\ UNCHANGED textVars

\* render: max_logo_width, padding, max_text_length and its floor
Measure ==
    /\ pc = "measure"
    /\ max_logo_width' = MaxLogoWidth(logo_lines)
    /\ max_text_length' = TextLength(term_cols, max_logo_width')
    /\ pc' = "build"
    /\ UNCHANGED <<env, ascii_qr_url, qr_outcome, logo_variant, term_cols, logo_lines,
                   info_lines, out, raised, trunc_calls>>
    /\ UNCHANGED textVars

\* render: build_info_lines returns
BuildInfo ==
    /\ pc = "build"
    /\ \E r \in {build_info_lines(env, max_text_length)} :
          /\ r.exc = NoException
          /\ info_lines' = r.val
    /\ trunc_calls' = TruncCalls(Values(Gather(env)), max_text_length)
    /\ pc' = "compose"
    /\ UNCHANGED <<env, ascii_qr_url, qr_outcome, logo_variant, term_cols, logo_lines,
                   max_logo_width, max_text_length, out, raised>>
    /\ UNCHANGED textVars

\* render: build_info_lines raises; nothing on the way up catches it
BuildInfoRaises ==
    /\ pc = "build"
    /\ \E r \in {build_info_lines(env, max_text_length)} :
          /\ r.exc # NoException
          /\ raised' = r.exc
    /\ pc' = "crashed"
    /\ UNCHANGED <<env, ascii_qr_url, qr_outcome, logo_variant, term_cols, logo_lines,
                   max_logo_width, max_text_length, info_lines, out, trunc_calls>>
    /\ UNCHANGED textVars

\* render: the narrow branch, and return
PrintNarrow ==
    /\ pc = "compose"
    /\ IsNarrow(term_cols)
    /\ out' = NarrowFrame(info_lines)
    /\ pc' = "done"
    /\ UNCHANGED <<env, ascii_qr_url, qr_outcome, logo_variant, term_cols, logo_lines,
                   max_logo_width, max_text_length, info_lines, raised, trunc_calls>>
    /\ UNCHANGED textVars

\* render: the side-by-side loop
PrintSideBySide ==
    /\ pc = "compose"
    /\ ~IsNarrow(term_cols)
    /\ out' = SideBySideFrame(logo_lines, info_lines, max_logo_width)
    /\ pc' = "done"
    /\ UNCHANGED <<env, ascii_qr_url, qr_outcome, logo_variant, term_cols, logo_lines,
                   max_logo_width, max_text_length, info_lines, raised, trunc_calls>>
    /\ UNCHANGED textVars

Next ==
    \/ Main
    \/ TerminalSize
    \/ LogoQr
    \/ LogoArt
    \/ Measure
    \/ BuildInfo
    \/ BuildInfoRaises
    \/ PrintNarrow
    \/ PrintSideBySide

Spec == Init /\ [][Next]_vars

-----------------------------------------------------------------------------
(* The text functions on arbitrary lines *)

\* the characters a line is drawn from: the escape marker, the characters of a
\* well-formed span, and an ordinary character
LineAlphabet == {ESC, "[", "0", ";", "m", "a"}

RECURSIVE LinesOfLen(_)
LinesOfLen(n) ==
    IF n = 0 THEN {<<>>}
    ELSE {<<c>> \o l : c \in LineAlphabet, l \in LinesOfLen(n - 1)}

Lines == UNION {LinesOfLen(n) : n \in 0..MaxLineLen}

InitText ==
    /\ t_pc = "input"
    /\ t_text \in Lines
    /\ t_max \in 0..MaxTruncLen
    /\ t_once = NoneVal
    /\ t_twice = NoneVal
    /\ pc = "off"
    /\ env = <<>>
    /\ ascii_qr_url = NoneVal
    /\ qr_outcome = "none"
    /\ logo_variant = "none"
    /\ term_cols = 0
    /\ logo_lines = <<>>
    /\ max_logo_width = 0
    /\ max_text_length = 0
    /\ info_lines = <<>>
    /\ out = <<>>
    /\ raised = "NoException"
    /\ trunc_calls = <<>>

\* safe_truncate(text, max_len)
Truncate ==
    /\ t_pc = "input"
    /\ t_once' = safe_truncate(t_text, t_max)
    /\ t_pc' = "truncated"
    /\ UNCHANGED <<t_text, t_max, t_twice>>
    /\ UNCHANGED renderVars

\* safe_truncate(safe_truncate(text, max_len), max_len)
TruncateAgain ==
    /\ t_pc = "truncated"
    /\ t_twice' = safe_truncate(t_once, t_max)
    /\ t_pc' = "again"
    /\ UNCHANGED <<t_text, t_max, t_once>>
    /\ UNCHANGED renderVars

NextText == Truncate \/ TruncateAgain

SpecText == InitText /\ [][NextText]_vars

-----------------------------------------------------------------------------
(* Properties *)

\* every ESC of line opens a span of the pattern \x1b\[[0-9;]*m
WellFormedLine(line) ==
    \A i \in 1..Len(line) : line[i] = ESC => MatchSgr(line, i) # 0

\* every ESC of line is followed, somewhere, by an 'm'
EverySpanCloses(line) ==
    \A i \in 1..Len(line) : line[i] = ESC => Find(line, "m", i) # 0

\* the last control span of line, if it has one, is the reset ESC[0m
ColorClosed(line) ==
    \A sp \in SgrSpans(line) :
        (\A other \in SgrSpans(line) : other[1] <= sp[1])
            => SubSeq(line, sp[1], sp[2] - 1) = NC

\* the visible width of row up to the info cell that ends it
LeftCell(row, info) == SubSeq(row, 1, Len(row) - Len(info))

InfoAt(i) == IF i <= Len(info_lines) THEN info_lines[i] ELSE <<>>

\* C1: whenever build_info_lines truncates a value whose color span is closed
\* by a reset, the truncated text it gets back closes its color with a reset too.
C1_TruncationKeepsReset ==
    \A k \in 1..Len(trunc_calls) :
        (/\ get_string_length(trunc_calls[k][1]) > trunc_calls[k][2]
         /\ SgrSpans(trunc_calls[k][1]) # {}
         /\ ColorClosed(trunc_calls[k][1]))
            => ColorClosed(trunc_calls[k][3])

\* C2: for max_len >= 3 and any line over the alphabet whose visible length
\* exceeds max_len, the truncated line's visible length is at most max_len.
C2_TruncatedFits ==
    (t_pc = "truncated" /\ t_max >= 3 /\ get_string_length(t_text) > t_max)
        => get_string_length(t_once) <= t_max

\* C3: in side-by-side mode the frame has max(len(logo), len(info)) content rows
\* between two blank rows; each content row ends with its info line (if any), and
\* what precedes it is the logo line plus logoWidth - visible + 4 spaces, or
\* logoWidth + 4 spaces past the logo, of visible width logoWidth + 4 either way.
C3_SideBySideColumns ==
    (pc = "done" /\ term_cols >= 60) =>
        /\ Len(out) = Max(Len(logo_lines), Len(info_lines)) + 2
        /\ out[1] = <<>>
        /\ out[Len(out)] = <<>>
        /\ \A i \in 1..(Len(out) - 2) :
              /\ Len(out[i + 1]) >= Len(InfoAt(i))
              /\ From(out[i + 1], Len(out[i + 1]) - Len(InfoAt(i)) + 1) = InfoAt(i)
              /\ get_string_length(LeftCell(out[i + 1], InfoAt(i))) = max_logo_width + 4
              /\ LeftCell(out[i + 1], InfoAt(i)) =
                    IF i <= Len(logo_lines)
                    THEN logo_lines[i]
                         \o [j \in 1..(max_logo_width - get_string_length(logo_lines[i]) + 4)
                                |-> " "]
                    ELSE [j \in 1..(max_logo_width + 4) |-> " "]

\* C3 witness: a side-by-side frame whose info block is taller than the logo and
\* whose logo has a line narrower than the logo width
C3_Witness ==
    /\ pc = "done"
    /\ term_cols >= 60
    /\ Len(logo_lines) < Len(info_lines)
    /\ \E i \in 1..Len(logo_lines) : get_string_length(logo_lines[i]) < max_logo_width

\* C4: below 60 columns the frame is a blank row, the info lines in order, a
\* blank row, and no logo line; from 60 columns on every logo line is printed at
\* the start of its row.
C4_NarrowBoundary ==
    pc = "done" =>
        IF term_cols < 60
        THEN /\ out = << <<>> >> \o info_lines \o << <<>> >>
             /\ \A r \in 1..Len(out) : \A i \in 1..Len(logo_lines) :
                    ~StartsWith(out[r], logo_lines[i])
        ELSE /\ Len(out) >= Len(logo_lines) + 2
             /\ \A i \in 1..Len(logo_lines) : StartsWith(out[i + 1], logo_lines[i])

\* C4 witness: a frame printed at 59 columns
C4_Witness == pc = "done" /\ term_cols = 59

\* C5: the width handed to build_info_lines is max(term_cols - logoWidth - 4, 30),
\* logoWidth being the largest visible length of a logo line; it is at least 30.
C5_TextColumnWidth ==
    pc \in {"build", "compose", "done", "crashed"} =>
        /\ \A i \in 1..Len(logo_lines) : get_string_length(logo_lines[i]) <= max_logo_width
        /\ \/ \E i \in 1..Len(logo_lines) : get_string_length(logo_lines[i]) = max_logo_width
           \/ (logo_lines = <<>> /\ max_logo_width = 0)
        /\ max_text_length = Max(term_cols - max_logo_width - 4, 30)
        /\ max_text_length >= 30

\* C5 witness: the floor decides the width
C5_Witness == pc = "build" /\ term_cols - max_logo_width - 4 < 30

C7_NoErrorIsFatal == pc # "crashed" /\ raised = NoException

\* C8: with --ascii-qr given (any payload) the logo is the QR code at every
\* width; without it the logo is compact below 80 columns and full from 80 on.
C8_LogoVariant ==
    logo_variant # "none" =>
        logo_variant = IF ascii_qr_url # NoneVal THEN "qrcode"
                       ELSE IF term_cols < 80 THEN "compact" ELSE "full"

\* C9: truncating the truncated line again, with the same max_len, changes nothing.
C9_TruncateIdempotent ==
    (t_pc = "again" /\ get_string_length(t_text) > t_max) => t_twice = t_once

====
